---- MODULE Spec2Model ----
(***************************************************************************)
(* Profit-and-loss extraction pipeline.                                    *)
(*                                                                         *)
(* Two variants of the pipeline live in the repository:                    *)
(*   - analyze_profit_loss.py       (run by main.py), names as in source   *)
(*   - src/core/analyzer.py         (run by app.py and the dashboard),     *)
(*                                  names prefixed core_                   *)
(*                                                                         *)
(* Representation.                                                         *)
(*   - A sheet is a sequence of rows, a row a sequence of cells.  Row and  *)
(*     column indices carried in values are 0-based as in the source:      *)
(*     df.iloc[i] is grid[i + 1].                                          *)
(*   - A cell is empty (pandas NaN), a number, or a string.  A string is a *)
(*     sequence of tokens: a token is a whole lower- or upper-case word    *)
(*     (letters only) or a single character of a numeric text ("0".."9",   *)
(*     "-", ".").  No word of the vocabulary contains a keyword inside it, *)
(*     so Python's substring test on the joined row text is the test for a *)
(*     contiguous run of tokens.                                           *)
(*   - Amounts are integers in thousandths: 0.01 is 10, 1000.0 is 1000000. *)
(*     Arithmetic is exact: binary rounding of floats is not modelled.     *)
(*   - None and NaN are two integers outside the range of every amount and *)
(*     row index; arithmetic and comparisons treat them as Python does.    *)
(***************************************************************************)
EXTENDS Integers, Sequences, FiniteSets, TLC

VARIABLES grid, pc, result, internals, previous, metrics, insights, categorized,
          llm_call

vars == <<grid, pc, result, internals, previous, metrics, insights, categorized,
          llm_call>>

None == -1000000000
NaN == 1000000000

\* 0.01 in thousandths: the "consider zero" threshold.
ZeroThreshold == 10

----------------------------------------------------------------------------
(* Cells *)

EmptyCell == [t |-> "nan", v |-> 0, w |-> <<>>]
Num(x) == [t |-> "num", v |-> x, w |-> <<>>]
Str(tokens) == [t |-> "str", v |-> 0, w |-> tokens]

\* pd.notna(x)
notna(c) == c.t # "nan"

\* isinstance(x, (int, float)); NaN is a float
isnumber(c) == c.t \in {"num", "nan"}

isstr(c) == c.t = "str"

Digits == {"0", "1", "2", "3", "4", "5", "6", "7", "8", "9"}

DigitVal(d) ==
    CASE d = "0" -> 0 [] d = "1" -> 1 [] d = "2" -> 2 [] d = "3" -> 3
      [] d = "4" -> 4 [] d = "5" -> 5 [] d = "6" -> 6 [] d = "7" -> 7
      [] d = "8" -> 8 [] d = "9" -> 9

RECURSIVE DigitsVal(_)
DigitsVal(s) ==
    IF s = <<>> THEN 0
    ELSE 10 * DigitsVal(SubSeq(s, 1, Len(s) - 1)) + DigitVal(s[Len(s)])

\* s.replace(ch, '', 1)
RECURSIVE replace1(_, _)
replace1(s, ch) ==
    IF s = <<>> THEN <<>>
    ELSE IF Head(s) = ch THEN Tail(s)
    ELSE <<Head(s)>> \o replace1(Tail(s), ch)

\* s.isdigit()
isdigit(s) == s # <<>> /\ \A i \in 1..Len(s) : s[i] \in Digits

\* the text float() is given, after its sign
Unsigned(s) == IF s # <<>> /\ Head(s) \in {"-", "+"} THEN Tail(s) ELSE s

\* float(s) succeeds on a string: an optional sign, digits, at most one '.',
\* at least one digit
FloatParses(s) ==
    LET u == Unsigned(s)
    IN  /\ \A i \in 1..Len(u) : u[i] \in Digits \cup {"."}
        /\ Cardinality({i \in 1..Len(u) : u[i] = "."}) <= 1
        /\ \E i \in 1..Len(u) : u[i] \in Digits

\* float(s) in thousandths (the vocabulary has at most three decimals)
FloatOfStr(s) ==
    LET u    == Unsigned(s)
        dots == {i \in 1..Len(u) : u[i] = "."}
        dot  == IF dots = {} THEN Len(u) + 1 ELSE CHOOSE i \in dots : TRUE
        ip   == SubSeq(u, 1, dot - 1)
        fr   == SubSeq(u, dot + 1, Len(u))
        fr3  == SubSeq(fr \o <<"0", "0", "0">>, 1, 3)
        mag  == 1000 * DigitsVal(ip) + DigitsVal(fr3)
    IN  IF s # <<>> /\ Head(s) = "-" THEN 0 - mag ELSE mag

\* float(x) raises ValueError / TypeError
FloatRaises(c) == isstr(c) /\ ~FloatParses(c.w)

\* float(x) where it does not raise; float(nan) is nan
FloatOf(c) ==
    IF c.t = "nan" THEN NaN
    ELSE IF c.t = "num" THEN c.v
    ELSE FloatOfStr(c.w)

\* abs(x) < 0.01; every comparison with NaN is False
AbsLtThreshold(x) == x # NaN /\ (IF x < 0 THEN 0 - x ELSE x) < ZeroThreshold

Abs(x) == IF x < 0 THEN 0 - x ELSE x

\* a + b and a - b on floats
FAdd(a, b) == IF a = NaN \/ b = NaN THEN NaN ELSE a + b
FSub(a, b) == IF a = NaN \/ b = NaN THEN NaN ELSE a - b

\* str(x) as tokens
StrOf(c) == IF c.t = "str" THEN c.w ELSE <<ToString(c.v)>>

----------------------------------------------------------------------------
(* Row text *)

LowerWord(t) ==
    CASE t = "Total" -> "total"
      [] t = "Sales" -> "sales"
      [] t = "Acme" -> "acme"
      [] t = "AC" -> "ac"
      [] t = "Corp" -> "corp"
      [] t = "Profit" -> "profit"
      [] t = "Loss" -> "loss"
      [] t = "For" -> "for"
      [] t = "Year" -> "year"
      [] t = "Ended" -> "ended"
      [] t = "December" -> "december"
      [] t = "Accrual" -> "accrual"
      [] t = "Cash" -> "cash"
      [] t = "Basis" -> "basis"
      [] t = "Trading" -> "trading"
      [] t = "Income" -> "income"
      [] t = "Cost" -> "cost"
      [] t = "Gross" -> "gross"
      [] t = "Operating" -> "operating"
      [] t = "Expenses" -> "expenses"
      [] t = "Net" -> "net"
      [] OTHER -> t

\* s.lower()
lower(s) == [i \in 1..Len(s) |-> LowerWord(s[i])]

\* ' '.join(str(x) for x in row if pd.notna(x))
RECURSIVE JoinRow(_)
JoinRow(row) ==
    IF row = <<>> THEN <<>>
    ELSE (IF notna(Head(row)) THEN StrOf(Head(row)) ELSE <<>>) \o JoinRow(Tail(row))

\* the lower-cased joined text of a row
row_str(row) == lower(JoinRow(row))

\* kw in s
Contains(s, kw) ==
    \E i \in 1..(Len(s) - Len(kw) + 1) : SubSeq(s, i, i + Len(kw) - 1) = kw

\* any(keyword in s for keyword in keywords)
AnyIn(keywords, s) == \E kw \in keywords : Contains(s, kw)

\* 'total' in s; "subtotal" is the one word of the vocabulary that holds "total"
HasTotal(s) == \E i \in 1..Len(s) : s[i] \in {"total", "subtotal"}

----------------------------------------------------------------------------
(* The sheet *)

len(df) == Len(df)
ncols(df) == IF df = <<>> THEN 0 ELSE Len(df[1])
\* df.iloc[i]
iloc(df, i) == df[i + 1]

\* name = value, then the statements that follow it, written
\* Let([name \in {value} |-> statements]): the value is computed once, as an
\* assignment computes it.
Let(f) == CHOOSE y \in {g[CHOOSE x \in DOMAIN g : TRUE] : g \in {f}} : TRUE

----------------------------------------------------------------------------
(* Section boundaries: analyze_profit_loss.py *)

NoSection == "None"

SectionOrder ==
    <<"tradingIncome", "costOfSales", "grossProfit", "operatingExpenses", "netProfit">>

PointSections == {"grossProfit", "netProfit"}

\* sections = {...} before the scan; a ranged section uses start and end, a
\* point section uses row
InitialSections ==
    [s \in {"tradingIncome", "costOfSales", "grossProfit", "operatingExpenses", "netProfit"} |->
        [start |-> None, end |-> None, row |-> None]]

section_keywords ==
    [tradingIncome |-> {<<"trading", "income">>, <<"revenue">>, <<"sales">>, <<"income">>,
                        <<"operating", "revenue">>},
     costOfSales |-> {<<"cost", "of", "sales">>, <<"cost", "of", "goods", "sold">>, <<"cogs">>,
                      <<"direct", "costs">>},
     grossProfit |-> {<<"gross", "profit">>, <<"gross", "income">>},
     operatingExpenses |-> {<<"operating", "expenses">>, <<"expenses">>, <<"overhead">>,
                            <<"operating", "costs">>, <<"indirect", "costs">>},
     netProfit |-> {<<"net", "profit">>, <<"net", "income">>, <<"profit", "for", "the", "period">>,
                    <<"net", "earnings">>}]

\* a scan that leaves a row to the first section with a keyword in it
ScanSection_first_only(st, i, rs, section) ==
    IF \/ ~AnyIn(section_keywords[section], rs)
       \/ \E k \in 1..Len(SectionOrder) :
             /\ AnyIn(section_keywords[SectionOrder[k]], rs)
             /\ \E n \in (k + 1)..Len(SectionOrder) : SectionOrder[n] = section
    THEN st
    ELSE IF section \in PointSections
    THEN [st EXCEPT !.sections[section].row = i]
    ELSE IF st.sections[section].start = None
    THEN [st EXCEPT !.sections[section].start = i, !.current = section]
    ELSE st

\* the body of "for section, keywords in section_keywords.items()" for one
\* section at row i; st = [sections, current]
ScanSection(st, i, rs, section) ==
    IF ~AnyIn(section_keywords[section], rs) THEN st
    ELSE
      LET s1 == IF /\ st.current # NoSection
                   /\ st.current # section
                   /\ st.sections[st.current].end = None
                THEN [st EXCEPT !.sections[st.current].end = i - 1]
                ELSE st
      IN  IF section \in PointSections
          THEN [s1 EXCEPT !.sections[section].row = i]
          ELSE
            LET s2 == IF s1.sections[section].start = None
                      THEN [s1 EXCEPT !.sections[section].start = i, !.current = section]
                      ELSE s1
            IN  IF HasTotal(rs)
                THEN [s2 EXCEPT !.sections[section].end = i, !.current = NoSection]
                ELSE s2

RECURSIVE ScanRowFrom(_, _, _, _)
ScanRowFrom(st, i, rs, k) ==
    IF k > Len(SectionOrder) THEN st
    ELSE Let([s \in {ScanSection(st, i, rs, SectionOrder[k])} |->
               ScanRowFrom(s, i, rs, k + 1)])

\* "for i in range(len(df))" from row i on
RECURSIVE ScanRows(_, _, _)
ScanRows(df, st, i) ==
    IF i >= len(df) THEN st
    ELSE Let([s \in {ScanRowFrom(st, i, row_str(iloc(df, i)), 1)} |->
               ScanRows(df, s, i + 1)])

\* a keyword of a section other than this one occurs in the row text
OtherSectionIn(section, rs) ==
    \E k \in 1..Len(SectionOrder) :
        SectionOrder[k] # section /\ AnyIn(section_keywords[SectionOrder[k]], rs)

\* "Infer section boundaries": the end found by the forward scan from row i
RECURSIVE InferEnd(_, _, _)
InferEnd(df, section, i) ==
    IF i >= len(df) THEN None
    ELSE IF HasTotal(row_str(iloc(df, i))) THEN i
    ELSE IF OtherSectionIn(section, row_str(iloc(df, i))) THEN i - 1
    ELSE InferEnd(df, section, i + 1)

InferSection(df, secs, section) ==
    IF secs[section].start # None /\ secs[section].end = None
    THEN [secs EXCEPT ![section].end = InferEnd(df, section, secs[section].start + 1)]
    ELSE secs

\* a call that starts from the open section an earlier call tracked
ScanStart_kept(left) == [sections |-> InitialSections, current |-> left]

\* sections = {...}; current_section = None: the locals a call starts from,
\* whatever the open section an earlier call tracked at its end
ScanStart(left) == [sections |-> InitialSections, current |-> NoSection]

\* current_section when the scan ends
LastOpenSection(df) == ScanRows(df, ScanStart(internals.current_section), 0).current

find_section_boundaries(df) ==
    Let([scanned \in {ScanRows(df, ScanStart(internals.current_section), 0).sections} |->
    Let([a \in {InferSection(df, scanned, "tradingIncome")} |->
    Let([b \in {InferSection(df, a, "costOfSales")} |->
         InferSection(df, b, "operatingExpenses")])])])

----------------------------------------------------------------------------
(* Section boundaries: src/core/analyzer.py *)

core_section_keywords ==
    [tradingIncome |-> {<<"trading", "income">>, <<"revenue">>, <<"sales">>, <<"income">>,
                        <<"operating", "revenue">>},
     costOfSales |-> {<<"cost", "of", "sales">>, <<"cost", "of", "goods", "sold">>, <<"cogs">>,
                      <<"direct", "costs">>},
     grossProfit |-> {<<"gross", "profit">>, <<"gross", "income">>, <<"gross", "margin">>},
     operatingExpenses |-> {<<"operating", "expenses">>, <<"expenses">>, <<"overhead">>,
                            <<"indirect", "costs">>, <<"administrative", "expenses">>},
     netProfit |-> {<<"net", "profit">>, <<"net", "income">>, <<"profit", "for", "the", "period">>,
                    <<"net", "earnings">>, <<"net", "operating", "profit">>}]

core_ScanSection(secs, i, rs, section) ==
    IF ~AnyIn(core_section_keywords[section], rs) THEN secs
    ELSE IF section \in PointSections
    THEN [secs EXCEPT ![section].row = i]
    ELSE IF secs[section].start = None
    THEN [secs EXCEPT ![section].start = i]
    ELSE secs

RECURSIVE core_ScanRowFrom(_, _, _, _)
core_ScanRowFrom(secs, i, rs, k) ==
    IF k > Len(SectionOrder) THEN secs
    ELSE Let([s \in {core_ScanSection(secs, i, rs, SectionOrder[k])} |->
               core_ScanRowFrom(s, i, rs, k + 1)])

RECURSIVE core_ScanRows(_, _, _)
core_ScanRows(df, secs, i) ==
    IF i >= len(df) THEN secs
    ELSE Let([s \in {core_ScanRowFrom(secs, i, row_str(iloc(df, i)), 1)} |->
               core_ScanRows(df, s, i + 1)])

\* the position a section holds: its start (ranged) or its row (point)
core_Position(secs, s) ==
    IF s \in PointSections THEN secs[s].row ELSE secs[s].start

\* next_section_start
core_NextSectionStart(df, secs, section) ==
    LET after == {core_Position(secs, SectionOrder[k]) : k \in 1..Len(SectionOrder)}
        later == {p \in after : p # None /\ p > secs[section].start} \cup {len(df)}
    IN  CHOOSE p \in later : \A q \in later : p <= q

Min(a, b) == IF a <= b THEN a ELSE b
Max(a, b) == IF a >= b THEN a ELSE b

\* the window past start used when no section follows
EndWindow == 20

core_SetEnd(df, all, secs, section) ==
    IF all[section].start = None THEN secs
    ELSE LET nxt == core_NextSectionStart(df, all, section)
         IN  IF nxt < len(df)
             THEN [secs EXCEPT ![section].end = nxt - 1]
             ELSE [secs EXCEPT ![section].end = Min(all[section].start + EndWindow, len(df) - 1)]

core_find_section_boundaries(df) ==
    Let([scanned \in {core_ScanRows(df, InitialSections, 0)} |->
    Let([a \in {core_SetEnd(df, scanned, scanned, "tradingIncome")} |->
    Let([b \in {core_SetEnd(df, scanned, a, "costOfSales")} |->
         core_SetEnd(df, scanned, b, "operatingExpenses")])])])

----------------------------------------------------------------------------
(* Numeric cells *)

\* x.replace('.', '', 1).replace('-', '', 1).isdigit(), or without the second
\* replace where the source leaves it out
LooksNumeric(c, stripMinus) ==
    \/ notna(c) /\ isnumber(c)
    \/ /\ isstr(c)
       /\ isdigit(IF stripMinus THEN replace1(replace1(c.w, "."), "-")
                  ELSE replace1(c.w, "."))

\* "for j in range(hi, lo - 1, -1)": float() of the first cell that passes the
\* numeric test and parses; None when the loop ends without one
RECURSIVE RightmostNumeric(_, _, _, _)
RightmostNumeric(row, hi, lo, stripMinus) ==
    IF hi < lo THEN None
    ELSE IF LooksNumeric(row[hi + 1], stripMinus) /\ ~FloatRaises(row[hi + 1])
    THEN FloatOf(row[hi + 1])
    ELSE RightmostNumeric(row, hi - 1, lo, stripMinus)

----------------------------------------------------------------------------
(* Exceptions *)

\* the exception float(x) raises, "None" when it returns
FloatError(c) == IF FloatRaises(c) THEN "ValueError" ELSE "None"

\* a handler that names TypeError alone
CaughtErrors_TypeError == {"TypeError"}

\* except (ValueError, TypeError)
CaughtErrors == {"ValueError", "TypeError"}

\* float(x) inside the try raises an exception the handler does not name
FloatEscapes(c) == FloatError(c) \notin CaughtErrors \cup {"None"}

\* df.iloc[i] raises IndexError
IndexErrorAt(df, i) == i >= len(df) \/ i < 0 - len(df)

\* an exception leaves the right-to-left scan of RightmostNumeric: a cell the
\* scan reaches passes the numeric test and float() of it escapes
RightmostRaises(row, hi, lo, stripMinus) ==
    \E j \in lo..hi :
        /\ LooksNumeric(row[j + 1], stripMinus)
        /\ FloatEscapes(row[j + 1])
        /\ \A k \in (j + 1)..hi :
              ~(LooksNumeric(row[k + 1], stripMinus) /\ ~FloatRaises(row[k + 1]))

----------------------------------------------------------------------------
(* Account extraction: analyze_profit_loss.py *)

\* the rows of df.iloc[start_idx:end_idx+1] as 0-based indices
SliceRows(df, start_idx, end_idx) ==
    {i \in 0..(len(df) - 1) : start_idx <= i /\ i <= end_idx}

\* value_col: the last column with a non-empty cell in the slice
ValueCol(df, start_idx, end_idx) ==
    LET cols == {j \in 0..(ncols(df) - 1) :
                    \E i \in SliceRows(df, start_idx, end_idx) : notna(iloc(df, i)[j + 1])}
    IN  IF cols = {} THEN None ELSE CHOOSE j \in cols : \A k \in cols : k <= j

\* pd.isna(row).all() or all(str(x).strip() == '' for x in row if pd.notna(x))
IsEmptyRow(row) == \A j \in 1..Len(row) : ~notna(row[j]) \/ StrOf(row[j]) = <<>>

OtherSectionMarkers ==
    {<<"cost", "of", "sales">>, <<"cost", "of", "goods", "sold">>, <<"cogs">>,
     <<"direct", "costs">>, <<"gross", "profit">>, <<"operating", "expenses">>}

UpperWords == {"AC"}

\* re.match(r'^[A-Z0-9-]+$', str(x).strip()); str() of a float holds a '.'
MatchesCode(c) ==
    /\ isstr(c)
    /\ c.w # <<>>
    /\ \A k \in 1..Len(c.w) : c.w[k] \in Digits \cup {"-"} \cup UpperWords

\* the account code: the first of the first two cells that matches; <<>> is None
AccountCode(row) ==
    LET js == {j \in 1..Min(2, Len(row)) : notna(row[j]) /\ MatchesCode(row[j])}
    IN  IF js = {} THEN <<>> ELSE StrOf(row[CHOOSE j \in js : \A k \in js : j <= k])

\* the account name: the first non-empty cell that is not the code; <<>> is None
AccountName(row, code) ==
    LET js == {j \in 1..Len(row) : notna(row[j]) /\ (code = <<>> \/ StrOf(row[j]) # code)}
    IN  IF js = {} THEN <<>> ELSE StrOf(row[CHOOSE j \in js : \A k \in js : j <= k])

\* one pass of "for i in range(start_idx + 1, end_idx + 1)";
\* acc = [accounts, extracted_total]
ExtractRow(df, i, value_col, acc) ==
    LET row  == iloc(df, i)
        rs   == row_str(row)
        cell == row[value_col + 1]
        code == AccountCode(row)
        name == AccountName(row, code)
    IN  IF IsEmptyRow(row) THEN acc
        ELSE IF HasTotal(rs)
        THEN IF FloatRaises(cell) THEN acc
             ELSE [acc EXCEPT !.extracted_total = FloatOf(cell)]
        ELSE IF AnyIn(OtherSectionMarkers, rs) THEN acc
        ELSE IF FloatRaises(cell) THEN acc
        ELSE IF name # <<>>
        THEN [acc EXCEPT !.accounts =
                 Append(@, [name |-> name, code |-> code, value |-> FloatOf(cell), row |-> i])]
        ELSE acc

RECURSIVE ExtractRows(_, _, _, _, _)
ExtractRows(df, i, end_idx, value_col, acc) ==
    IF i > end_idx THEN acc
    ELSE Let([a \in {ExtractRow(df, i, value_col, acc)} |->
               ExtractRows(df, i + 1, end_idx, value_col, a)])

\* sum(account["value"] for account in accounts)
RECURSIVE SumValues(_)
SumValues(accounts) ==
    IF accounts = <<>> THEN 0
    ELSE FAdd(SumValues(SubSeq(accounts, 1, Len(accounts) - 1)), accounts[Len(accounts)].value)

\* abs(a - b) > max(abs(a), abs(b)) * 0.05, as 20 * |a - b| > max(|a|, |b|);
\* False when either is NaN
DiffersSignificantly(a, b) ==
    /\ a # NaN
    /\ b # NaN
    /\ 20 * Abs(a - b) > Max(Abs(a), Abs(b))

\* reconcile_total with the 5% test made inclusive
reconcile_total_inclusive(extracted_total, calculated_total) ==
    IF extracted_total = None \/ AbsLtThreshold(extracted_total)
    THEN calculated_total
    ELSE IF /\ calculated_total # None
            /\ extracted_total # NaN
            /\ calculated_total # NaN
            /\ 20 * Abs(extracted_total - calculated_total)
                  >= Max(Abs(extracted_total), Abs(calculated_total))
    THEN calculated_total
    ELSE extracted_total

\* "Determine which total to use"
reconcile_total(extracted_total, calculated_total) ==
    IF extracted_total = None \/ AbsLtThreshold(extracted_total)
    THEN calculated_total
    ELSE IF calculated_total # None /\ DiffersSignificantly(extracted_total, calculated_total)
    THEN calculated_total
    ELSE extracted_total

NoAccounts ==
    [accounts |-> <<>>, total |-> None, extracted_total |-> None,
     calculated_total |-> None, value_col |-> None]

\* returns (accounts, total); extracted_total, calculated_total and value_col
\* are the locals at the return
extract_accounts(df, start_idx, end_idx) ==
    Let([value_col \in {ValueCol(df, start_idx, end_idx)} |->
      IF value_col = None THEN NoAccounts
      ELSE
        Let([acc \in {ExtractRows(df, start_idx + 1, end_idx, value_col,
                         [accounts |-> <<>>, extracted_total |-> None])} |->
        Let([calc \in {IF acc.accounts # <<>> THEN SumValues(acc.accounts) ELSE None} |->
             [accounts |-> acc.accounts,
              total |-> reconcile_total(acc.extracted_total, calc),
              extracted_total |-> acc.extracted_total,
              calculated_total |-> calc,
              value_col |-> value_col]])])])

\* an exception leaves extract_accounts
extract_accounts_raises(df, start_idx, end_idx) ==
    /\ ValueCol(df, start_idx, end_idx) # None
    /\ \E i \in (start_idx + 1)..end_idx :
          \/ IndexErrorAt(df, i)
          \/ /\ ~IsEmptyRow(iloc(df, i))
             /\ \/ HasTotal(row_str(iloc(df, i)))
                \/ ~AnyIn(OtherSectionMarkers, row_str(iloc(df, i)))
             /\ FloatEscapes(iloc(df, i)[ValueCol(df, start_idx, end_idx) + 1])

----------------------------------------------------------------------------
(* Account extraction: src/core/analyzer.py *)

\* the account name: the first non-blank string among the first three cells
core_AccountName(row) ==
    LET js == {j \in 1..Min(3, Len(row)) : isstr(row[j]) /\ row[j].w # <<>>}
    IN  IF js = {} THEN <<>> ELSE row[CHOOSE j \in js : \A k \in js : j <= k].w

\* the account code: the first all-digit string among the first three cells
core_AccountCode(row) ==
    LET js == {j \in 1..Min(3, Len(row)) : isstr(row[j]) /\ isdigit(row[j].w)}
    IN  IF js = {} THEN <<>> ELSE row[CHOOSE j \in js : \A k \in js : j <= k].w

\* acc = [accounts, total_value]
core_ExtractRow(df, i, acc) ==
    LET row   == iloc(df, i)
        rs    == row_str(row)
        n     == Len(row)
        total == RightmostNumeric(row, n - 1, 0, TRUE)
        value == RightmostNumeric(row, n - 1, Max(0, n - 4) + 1, TRUE)
        name  == core_AccountName(row)
    IN  IF \A j \in 1..n : ~notna(row[j]) THEN acc
        ELSE IF HasTotal(rs)
        THEN IF total = None THEN acc ELSE [acc EXCEPT !.total_value = total]
        ELSE IF name # <<>> /\ value # None
        THEN [acc EXCEPT !.accounts =
                 Append(@, [name |-> name, code |-> core_AccountCode(row),
                            value |-> value, row |-> i])]
        ELSE acc

RECURSIVE core_ExtractRows(_, _, _, _)
core_ExtractRows(df, i, end_row, acc) ==
    IF i > end_row THEN acc
    ELSE Let([a \in {core_ExtractRow(df, i, acc)} |->
               core_ExtractRows(df, i + 1, end_row, a)])

\* returns (accounts, total_value)
core_extract_accounts(df, start_row, end_row) ==
    core_ExtractRows(df, start_row + 1, end_row, [accounts |-> <<>>, total_value |-> None])

\* an exception leaves extract_accounts
core_extract_accounts_raises(df, start_row, end_row) ==
    \E i \in (start_row + 1)..end_row :
        \/ IndexErrorAt(df, i)
        \/ LET row == iloc(df, i)
               n   == Len(row)
           IN  /\ \E j \in 1..n : notna(row[j])
               /\ IF HasTotal(row_str(row))
                  THEN RightmostRaises(row, n - 1, 0, TRUE)
                  ELSE RightmostRaises(row, n - 1, Max(0, n - 4) + 1, TRUE)

----------------------------------------------------------------------------
(* Metadata: extract_company_and_period, identify_basis_type (the same code
   in both variants) *)

Months ==
    {"january", "february", "march", "april", "may", "june", "july", "august",
     "september", "october", "november", "december"}

\* the tokens \d{4} matches
YearTokens == {"2023", "2024"}

\* the tokens [\w\s,]+ runs over
WordTokens(s) == {i \in 1..Len(s) : s[i] \notin {"-", ".", "&"}}

\* the end of the match of the pattern at token i, 0 when it does not match there:
\*   (month)\s+\d{4} | for\s+the\s+\w+\s+ended\s+[\w\s,]+\d{4}
\*                   | year\s+to\s+date\s+[\w\s,]+\d{4}
\* (the greedy run ends at the last year it can reach)
PeriodMatchEnd(s, i) ==
    LET n == Len(s)
        runEnd(from) ==
            LET js == {j \in (from + 1)..n :
                          /\ s[j] \in YearTokens
                          /\ \A k \in from..j : k \in WordTokens(s)}
            IN  IF js = {} THEN 0 ELSE CHOOSE j \in js : \A k \in js : k <= j
    IN  IF i + 1 <= n /\ s[i] \in Months /\ s[i + 1] \in YearTokens THEN i + 1
        ELSE IF /\ i + 4 <= n
                /\ s[i] = "for" /\ s[i + 1] = "the" /\ i + 2 \in WordTokens(s)
                /\ s[i + 3] = "ended"
        THEN runEnd(i + 4)
        ELSE IF i + 3 <= n /\ s[i] = "year" /\ s[i + 1] = "to" /\ s[i + 2] = "date"
        THEN runEnd(i + 3)
        ELSE 0

TitleWord(t) ==
    CASE t = "december" -> "December"
      [] t = "for" -> "For"
      [] t = "the" -> "The"
      [] t = "year" -> "Year"
      [] t = "ended" -> "Ended"
      [] OTHER -> t

\* PeriodOf with the month-and-year alternative alone
PeriodOf_month_only(s) ==
    LET at == {i \in 1..(Len(s) - 1) : s[i] \in Months /\ s[i + 1] \in YearTokens}
    IN  IF at = {} THEN <<>>
        ELSE LET i == CHOOSE a \in at : \A b \in at : a <= b
             IN  <<TitleWord(s[i]), TitleWord(s[i + 1])>>

\* period_match.group(0).title(); <<>> when re.search finds nothing
PeriodOf(s) ==
    LET at == {i \in 1..Len(s) : PeriodMatchEnd(s, i) > 0}
    IN  IF at = {} THEN <<>>
        ELSE LET i == CHOOSE a \in at : \A b \in at : a <= b
                 m == SubSeq(s, i, PeriodMatchEnd(s, i))
             IN  [k \in 1..Len(m) |-> TitleWord(m[k])]

CompanyPrefixes == {"profit", "loss", "p&l", "income"}

\* the rows scanned for the company name and the period
CompanyWindow == 10

\* "for i in range(min(10, len(df)))" from row i; <<>> is None
RECURSIVE CompanyAndPeriodFrom(_, _, _)
CompanyAndPeriodFrom(df, i, company_name) ==
    IF i >= Min(CompanyWindow, len(df))
    THEN [company_name |-> company_name, period |-> <<>>]
    ELSE
      LET text == JoinRow(iloc(df, i))
          name == IF /\ company_name = <<>>
                     /\ text # <<>>
                     /\ lower(text)[1] \notin CompanyPrefixes
                  THEN text ELSE company_name
          period == PeriodOf(lower(text))
      IN  IF period # <<>> THEN [company_name |-> name, period |-> period]
          ELSE Let([found \in {name} |-> CompanyAndPeriodFrom(df, i + 1, found)])

extract_company_and_period(df) == CompanyAndPeriodFrom(df, 0, <<>>)

\* the rows scanned for the basis
BasisWindow == 15

RECURSIVE BasisFrom(_, _)
BasisFrom(df, i) ==
    IF i >= Min(BasisWindow, len(df)) THEN "Accrual"
    ELSE IF Contains(row_str(iloc(df, i)), <<"accrual", "basis">>) THEN "Accrual"
    ELSE IF Contains(row_str(iloc(df, i)), <<"cash", "basis">>) THEN "Cash"
    ELSE BasisFrom(df, i + 1)

identify_basis_type(df) == BasisFrom(df, 0)

----------------------------------------------------------------------------
(* The result record.  result["sections"] is modelled by keys (the keys present)
   and one field per section; a field whose key is absent holds NoSectionResult
   or None. *)

NoSectionResult == [accounts |-> <<>>, total |-> None]

EmptySections ==
    [keys |-> {}, tradingIncome |-> NoSectionResult, costOfSales |-> NoSectionResult,
     operatingExpenses |-> NoSectionResult, grossProfit |-> None, netProfit |-> None]

\* result["sections"][name] = {"accounts": accounts, "total": total}
PutSection(secs, name, accounts, total) ==
    [secs EXCEPT !.keys = @ \cup {name}, ![name] = [accounts |-> accounts, total |-> total]]

\* result["sections"][name] = value
PutValue(secs, name, value) ==
    [secs EXCEPT !.keys = @ \cup {name}, ![name] = value]

HasRange(b) == b.start # None /\ b.end # None

\* "Use calculated value if extracted is zero or None"
PreferExtracted(extracted, calculated) ==
    IF extracted = None \/ AbsLtThreshold(extracted) THEN calculated ELSE extracted

\* a - b when both sections are in the result and neither total is None
Derived(haveA, a, haveB, b) ==
    IF haveA /\ haveB /\ a # None /\ b # None THEN FSub(a, b) ELSE None

----------------------------------------------------------------------------
(* analyze_profit_loss: analyze_profit_loss.py *)

\* TradingEnd without the adjustment
TradingEnd_unclamped(b) == b.tradingIncome.end

\* "If Cost of Sales starts before Trading Income ends, adjust the end boundary"
TradingEnd(b) ==
    IF /\ b.costOfSales.start # None
       /\ b.tradingIncome.start < b.costOfSales.start
       /\ b.costOfSales.start < b.tradingIncome.end
    THEN b.costOfSales.start - 1
    ELSE b.tradingIncome.end

TradingTotalKeywords == {<<"trading", "income">>, <<"revenue">>, <<"sales">>, <<"income">>}

\* "Get the total trading income from the Trading Income section":
\* "for i in range(start, trading_end + 1)" from row i
RECURSIVE TradingTotal(_, _, _, _)
TradingTotal(df, i, trading_end, trading_total) ==
    IF i > trading_end THEN trading_total
    ELSE
      LET row == iloc(df, i)
          rs  == row_str(row)
          v   == IF HasTotal(rs) /\ AnyIn(TradingTotalKeywords, rs)
                 THEN RightmostNumeric(row, Len(row) - 1, 0, TRUE)
                 ELSE None
      IN  Let([t \in {IF v = None THEN trading_total ELSE v} |->
                TradingTotal(df, i + 1, trading_end, t)])

\* the "Extract trading income" block
TradingIncomeStep(df, b, secs) ==
    IF ~HasRange(b.tradingIncome) THEN [secs |-> secs, ext |-> NoAccounts, trading_end |-> None]
    ELSE
      Let([trading_end \in {TradingEnd(b)} |->
      Let([ext \in {extract_accounts(df, b.tradingIncome.start, trading_end)} |->
      Let([tt \in {TradingTotal(df, b.tradingIncome.start, trading_end, None)} |->
        LET trading_total == IF tt = None \/ AbsLtThreshold(tt) THEN ext.total ELSE tt
        IN  [secs |-> IF ext.accounts # <<>>
                      THEN PutSection(secs, "tradingIncome", ext.accounts, trading_total)
                      ELSE secs,
             ext |-> ext, trading_end |-> trading_end]])])])

\* CostOfSalesStep without "if accounts:"
CostOfSalesStep_always(df, b, secs) ==
    IF ~HasRange(b.costOfSales) THEN [secs |-> secs, ext |-> NoAccounts]
    ELSE
      Let([ext \in {extract_accounts(df, b.costOfSales.start, b.costOfSales.end)} |->
           [secs |-> PutSection(secs, "costOfSales", ext.accounts, ext.total), ext |-> ext]])

\* the "Extract cost of sales" block
CostOfSalesStep(df, b, secs) ==
    IF ~HasRange(b.costOfSales) THEN [secs |-> secs, ext |-> NoAccounts]
    ELSE
      Let([ext \in {extract_accounts(df, b.costOfSales.start, b.costOfSales.end)} |->
           [secs |-> IF ext.accounts # <<>>
                     THEN PutSection(secs, "costOfSales", ext.accounts, ext.total)
                     ELSE secs,
            ext |-> ext]])

\* the "Extract gross profit" block
GrossProfitStep(df, b, secs) ==
    IF b.grossProfit.row = None THEN secs
    ELSE
      LET row == iloc(df, b.grossProfit.row)
          gross_profit_extracted == RightmostNumeric(row, Len(row) - 1, 0, FALSE)
          gross_profit_calculated ==
              Derived("tradingIncome" \in secs.keys, secs.tradingIncome.total,
                      "costOfSales" \in secs.keys, secs.costOfSales.total)
      IN  PutValue(secs, "grossProfit",
                   PreferExtracted(gross_profit_extracted, gross_profit_calculated))

\* the "Extract operating expenses" block
OperatingExpensesStep(df, b, secs) ==
    IF ~HasRange(b.operatingExpenses) THEN [secs |-> secs, ext |-> NoAccounts]
    ELSE
      Let([ext \in {extract_accounts(df, b.operatingExpenses.start,
                                      b.operatingExpenses.end)} |->
        LET total == IF ext.total = None \/ AbsLtThreshold(ext.total)
                     THEN SumValues(ext.accounts) ELSE ext.total
        IN  [secs |-> IF ext.accounts # <<>>
                      THEN PutSection(secs, "operatingExpenses", ext.accounts, total)
                      ELSE secs,
             ext |-> ext]])

\* the "Extract net profit" block
NetProfitStep(df, b, secs) ==
    IF b.netProfit.row = None THEN secs
    ELSE
      LET row == iloc(df, b.netProfit.row)
          net_profit_extracted == RightmostNumeric(row, Len(row) - 1, 0, TRUE)
          net_profit_calculated ==
              Derived("grossProfit" \in secs.keys, secs.grossProfit,
                      "operatingExpenses" \in secs.keys, secs.operatingExpenses.total)
      IN  PutValue(secs, "netProfit",
                   PreferExtracted(net_profit_extracted, net_profit_calculated))

\* "Determine if the report is complete or partial"
ReportType(b) ==
    IF b.tradingIncome.start = None \/ b.costOfSales.start = None
    THEN "Partial" ELSE "Complete"

\* an exception leaves the scan of a point section's row
PointRaises(df, row_idx, stripMinus) ==
    /\ row_idx # None
    /\ \/ IndexErrorAt(df, row_idx)
       \/ RightmostRaises(iloc(df, row_idx), Len(iloc(df, row_idx)) - 1, 0, stripMinus)

\* an exception leaves analyze_profit_loss
analyze_profit_loss_raises(df, b, trading_end) ==
    \/ /\ HasRange(b.tradingIncome)
       /\ \/ extract_accounts_raises(df, b.tradingIncome.start, trading_end)
          \/ \E i \in b.tradingIncome.start..trading_end :
                \/ IndexErrorAt(df, i)
                \/ /\ HasTotal(row_str(iloc(df, i)))
                   /\ AnyIn(TradingTotalKeywords, row_str(iloc(df, i)))
                   /\ RightmostRaises(iloc(df, i), Len(iloc(df, i)) - 1, 0, TRUE)
    \/ /\ HasRange(b.costOfSales)
       /\ extract_accounts_raises(df, b.costOfSales.start, b.costOfSales.end)
    \/ PointRaises(df, b.grossProfit.row, FALSE)
    \/ /\ HasRange(b.operatingExpenses)
       /\ extract_accounts_raises(df, b.operatingExpenses.start, b.operatingExpenses.end)
    \/ PointRaises(df, b.netProfit.row, TRUE)

\* the result, and the locals the claims speak of
analyze_profit_loss(df) ==
    Let([meta \in {extract_company_and_period(df)} |->
    Let([b \in {find_section_boundaries(df)} |->
    Let([ti \in {TradingIncomeStep(df, b, EmptySections)} |->
    Let([cos \in {CostOfSalesStep(df, b, ti.secs)} |->
    Let([gp \in {GrossProfitStep(df, b, cos.secs)} |->
    Let([opex \in {OperatingExpensesStep(df, b, gp)} |->
    Let([np \in {NetProfitStep(df, b, opex.secs)} |->
         [result |-> [companyName |-> meta.company_name,
                      period |-> meta.period,
                      basisType |-> identify_basis_type(df),
                      reportType |-> ReportType(b),
                      sections |-> np],
          internals |-> [sections |-> b,
                         current_section |-> LastOpenSection(df),
                         raised |-> analyze_profit_loss_raises(df, b, ti.trading_end),
                         trading_end |-> ti.trading_end,
                         tradingIncome |-> ti.ext,
                         costOfSales |-> cos.ext,
                         operatingExpenses |-> opex.ext]]])])])])])])])

----------------------------------------------------------------------------
(* analyze_profit_loss: src/core/analyzer.py *)

UnknownCompany == <<"Unknown", "Company">>
UnknownPeriod == <<"Unknown", "Period">>

\* an "Extract ..." block of a ranged section
core_SectionStep(df, b, secs, name) ==
    IF ~HasRange(b[name]) THEN [secs |-> secs, ext |-> NoAccounts]
    ELSE
      Let([got \in {core_extract_accounts(df, b[name].start, b[name].end)} |->
        LET total == IF got.total_value = None \/ AbsLtThreshold(got.total_value)
                     THEN SumValues(got.accounts) ELSE got.total_value
        IN  [secs |-> IF got.accounts # <<>>
                      THEN PutSection(secs, name, got.accounts, total)
                      ELSE secs,
             ext |-> [accounts |-> got.accounts, total |-> got.total_value,
                      extracted_total |-> got.total_value,
                      calculated_total |-> IF got.accounts # <<>>
                                           THEN SumValues(got.accounts) ELSE None,
                      value_col |-> None]]])

core_PointStep(df, row_idx, secs, name, haveA, a, haveB, b) ==
    IF row_idx = None THEN secs
    ELSE
      LET row == iloc(df, row_idx)
          extracted == RightmostNumeric(row, Len(row) - 1, 0, TRUE)
      IN  PutValue(secs, name, PreferExtracted(extracted, Derived(haveA, a, haveB, b)))

core_ReportType == "Complete"

\* an exception leaves analyze_profit_loss
core_analyze_profit_loss_raises(df, b) ==
    \/ \E s \in {"tradingIncome", "costOfSales", "operatingExpenses"} :
          HasRange(b[s]) /\ core_extract_accounts_raises(df, b[s].start, b[s].end)
    \/ PointRaises(df, b.grossProfit.row, TRUE)
    \/ PointRaises(df, b.netProfit.row, TRUE)

core_analyze_profit_loss(df) ==
    Let([meta \in {extract_company_and_period(df)} |->
    Let([b \in {core_find_section_boundaries(df)} |->
    Let([ti \in {core_SectionStep(df, b, EmptySections, "tradingIncome")} |->
    Let([cos \in {core_SectionStep(df, b, ti.secs, "costOfSales")} |->
    Let([gp \in {core_PointStep(df, b.grossProfit.row, cos.secs, "grossProfit",
                        "tradingIncome" \in cos.secs.keys, cos.secs.tradingIncome.total,
                        "costOfSales" \in cos.secs.keys, cos.secs.costOfSales.total)} |->
    Let([opex \in {core_SectionStep(df, b, gp, "operatingExpenses")} |->
    Let([np \in {core_PointStep(df, b.netProfit.row, opex.secs, "netProfit",
                        "grossProfit" \in opex.secs.keys, opex.secs.grossProfit,
                        "operatingExpenses" \in opex.secs.keys,
                        opex.secs.operatingExpenses.total)} |->
         [result |-> [companyName |-> IF meta.company_name # <<>>
                                      THEN meta.company_name ELSE UnknownCompany,
                      period |-> IF meta.period # <<>> THEN meta.period ELSE UnknownPeriod,
                      basisType |-> identify_basis_type(df),
                      reportType |-> core_ReportType,
                      sections |-> np],
          internals |-> [sections |-> b,
                         current_section |-> NoSection,
                         raised |-> core_analyze_profit_loss_raises(df, b),
                         trading_end |-> b.tradingIncome.end,
                         tradingIncome |-> ti.ext,
                         costOfSales |-> cos.ext,
                         operatingExpenses |-> opex.ext]]])])])])])])])

----------------------------------------------------------------------------
(* Ratios: src/core/ratios.py.  A quotient a / b is the pair [n |-> a, d |-> b],
   None is NoRatio; a mapping is modelled by keys (the keys present) and one
   value per name. *)

RatioNames ==
    {"gross_margin", "net_margin", "operating_margin", "return_on_equity",
     "return_on_assets", "current_ratio", "quick_ratio"}

MetricNames == {"gross_profit", "operating_profit", "cogs_ratio", "expense_ratio"}

NoRatio == [n |-> None, d |-> None]

\* a / b for b # 0; a float a is a / 1
Quotient(a, b) == IF a = NaN \/ b = NaN THEN [n |-> NaN, d |-> 1] ELSE [n |-> a, d |-> b]

\* r * 100
Times100(r) == IF r = NoRatio \/ r.n = NaN THEN r ELSE [r EXCEPT !.n = 100 * @]

\* FinancialStatement.none_to_zero
none_to_zero(v) == IF v = None THEN 0 ELSE v

\* a conversion that defaults a missing tradingIncome like the other sections
convert_defaulting(data) ==
    LET sections == data.sections
        total(s) == IF s \in sections.keys THEN sections[s].total ELSE 0
    IN  [raised |-> FALSE,
         revenue |-> none_to_zero(total("tradingIncome")),
         cost_of_goods_sold |-> none_to_zero(total("costOfSales")),
         operating_expenses |-> none_to_zero(total("operatingExpenses")),
         net_income |-> none_to_zero(IF "netProfit" \in sections.keys
                                     THEN sections.netProfit ELSE 0),
         total_assets |-> none_to_zero(None),
         total_equity |-> none_to_zero(None),
         current_assets |-> none_to_zero(None),
         current_liabilities |-> none_to_zero(None),
         inventory |-> none_to_zero(None)]

\* convert_analyzer_output_to_financial_statement; raised: ValueError
convert_analyzer_output_to_financial_statement(data) ==
    LET sections == data.sections
        total(s) == IF s \in sections.keys THEN sections[s].total ELSE 0
    IN  [raised |-> "tradingIncome" \notin sections.keys,
         revenue |-> none_to_zero(total("tradingIncome")),
         cost_of_goods_sold |-> none_to_zero(total("costOfSales")),
         operating_expenses |-> none_to_zero(total("operatingExpenses")),
         net_income |-> none_to_zero(IF "netProfit" \in sections.keys
                                     THEN sections.netProfit ELSE 0),
         total_assets |-> none_to_zero(None),
         total_equity |-> none_to_zero(None),
         current_assets |-> none_to_zero(None),
         current_liabilities |-> none_to_zero(None),
         inventory |-> none_to_zero(None)]

\* the numerator and the denominator of each ratio
RatioNumerator(fs, name) ==
    CASE name = "gross_margin" -> FSub(fs.revenue, fs.cost_of_goods_sold)
      [] name = "net_margin" -> fs.net_income
      [] name = "operating_margin" ->
             FSub(FSub(fs.revenue, fs.cost_of_goods_sold), fs.operating_expenses)
      [] name = "return_on_equity" -> fs.net_income
      [] name = "return_on_assets" -> fs.net_income
      [] name = "current_ratio" -> fs.current_assets
      [] name = "quick_ratio" -> FSub(fs.current_assets, fs.inventory)

RatioDenominator(fs, name) ==
    CASE name \in {"gross_margin", "net_margin", "operating_margin"} -> fs.revenue
      [] name = "return_on_equity" -> fs.total_equity
      [] name = "return_on_assets" -> fs.total_assets
      [] name \in {"current_ratio", "quick_ratio"} -> fs.current_liabilities

\* gross_margin_ratio, ..., quick_ratio: None when the denominator is zero
Ratio(fs, name) ==
    IF RatioDenominator(fs, name) = 0 THEN NoRatio
    ELSE Quotient(RatioNumerator(fs, name), RatioDenominator(fs, name))

calculate_all_ratios(fs) ==
    [name \in RatioNames |->
        IF name \in {"current_ratio", "quick_ratio"}
        THEN Ratio(fs, name) ELSE Times100(Ratio(fs, name))]

\* the mapping {}
EmptyMetrics == [keys |-> {}, values |-> [name \in RatioNames \cup MetricNames |-> NoRatio]]

calculate_financial_metrics(data) ==
    Let([fs \in {convert_analyzer_output_to_financial_statement(data)} |->
      IF fs.raised THEN EmptyMetrics
      ELSE
        [keys |-> RatioNames \cup MetricNames,
         values |->
            [name \in RatioNames \cup MetricNames |->
                CASE name \in RatioNames -> calculate_all_ratios(fs)[name]
                  [] name = "gross_profit" ->
                         Quotient(FSub(fs.revenue, fs.cost_of_goods_sold), 1)
                  [] name = "operating_profit" ->
                         Quotient(FSub(FSub(fs.revenue, fs.cost_of_goods_sold),
                                       fs.operating_expenses), 1)
                  [] name = "cogs_ratio" ->
                         IF fs.revenue # 0
                         THEN Times100(Quotient(fs.cost_of_goods_sold, fs.revenue))
                         ELSE NoRatio
                  [] name = "expense_ratio" ->
                         IF fs.revenue # 0
                         THEN Times100(Quotient(fs.operating_expenses, fs.revenue))
                         ELSE NoRatio]]])

----------------------------------------------------------------------------
(* Insights: src/utils/llm_service.py, src/utils/insights_helper.py,
   src/dashboard/components/ui.py.  The API's reply to an attempt is "json" (a
   JSON object with every required field), "json_incomplete" (a JSON object
   without summary), "not_json", or the exception the call raises.  An
   exception a function raises is the field error of its value. *)

max_retries == 3

\* what the dashboard's session can meet: the checkbox, a valid cache entry
\* for the request, OPENAI_API_KEY, and the API's replies to the attempts made
Environments ==
    LET Retried == {"APIConnectionError", "RateLimitError", "APIError"}
        Final == {"json", "json_incomplete", "not_json", "Exception"}
        Replies ==
            {<<f>> : f \in Final}
              \cup {<<e, f>> : e \in Retried, f \in Final}
              \cup {<<e1, e2, f>> : e1 \in Retried, e2 \in Retried, f \in Final \cup Retried}
    IN  [use_llm : {FALSE}, cached : {FALSE}, api_key : {FALSE}, replies : {<<>>}]
          \cup [use_llm : {TRUE}, cached : {TRUE}, api_key : BOOLEAN, replies : {<<>>}]
          \cup [use_llm : {TRUE}, cached : {FALSE}, api_key : {FALSE}, replies : {<<>>}]
          \cup [use_llm : {TRUE}, cached : {FALSE}, api_key : {TRUE}, replies : Replies]

RECURSIVE call_openai_api_retry_any(_, _, _)
\* LLMService._call_openai_api retrying after every failed attempt
call_openai_api_retry_any(api_key, replies, attempt) ==
    IF ~api_key THEN [content |-> "none", error |-> "LLMServiceError", attempts |-> attempt + 1]
    ELSE
      LET reply == replies[attempt + 1]
      IN  IF reply \in {"json", "json_incomplete"}
          THEN [content |-> reply, error |-> "None", attempts |-> attempt + 1]
          ELSE IF attempt < max_retries - 1
          THEN call_openai_api_retry_any(api_key, replies, attempt + 1)
          ELSE [content |-> "none", error |-> "LLMServiceError", attempts |-> attempt + 1]

RECURSIVE call_openai_api(_, _, _)
\* LLMService._call_openai_api, from attempt on; content: the parsed reply
call_openai_api(api_key, replies, attempt) ==
    IF ~api_key THEN [content |-> "none", error |-> "LLMServiceError", attempts |-> attempt + 1]
    ELSE
      LET reply == replies[attempt + 1]
      IN  CASE reply \in {"json", "json_incomplete"} ->
                   [content |-> reply, error |-> "None", attempts |-> attempt + 1]
            [] reply \in {"APIConnectionError", "RateLimitError", "APIError"} ->
                   IF attempt < max_retries - 1
                   THEN call_openai_api(api_key, replies, attempt + 1)
                   ELSE [content |-> "none", error |-> "LLMServiceError",
                         attempts |-> attempt + 1]
            [] OTHER ->
                   [content |-> "none", error |-> "LLMServiceError", attempts |-> attempt + 1]

\* FinancialInsightResponse(**llm_response) accepting a reply without summary
response_valid_lenient(content) == content \in {"json", "json_incomplete"}

\* FinancialInsightResponse(**llm_response) validates
response_valid(content) == content = "json"

\* LLMService.generate_insights
generate_insights(request_data, env) ==
    IF request_data.company_name = <<>> \/ request_data.period = <<>>
    THEN [response |-> None, error |-> "LLMServiceError", attempts |-> 0]
    ELSE IF env.cached
    THEN [response |-> 1, error |-> "None", attempts |-> 0]
    ELSE
      Let([llm_response \in {call_openai_api(env.api_key, env.replies, 0)} |->
        IF llm_response.error # "None"
        THEN [response |-> None, error |-> llm_response.error,
              attempts |-> llm_response.attempts]
        ELSE IF ~response_valid(llm_response.content)
        THEN [response |-> None, error |-> "LLMServiceError",
              attempts |-> llm_response.attempts]
        ELSE [response |-> 1, error |-> "None", attempts |-> llm_response.attempts]])

\* prepare_financial_data_for_llm: None for a string is <<>>
prepare_financial_data_for_llm(data) ==
    [company_name |-> data.companyName, period |-> data.period]

\* generate_llm_insights: the response (1) or None, and the exception that
\* leaves it
generate_llm_insights(data, env) ==
    IF ~env.use_llm THEN [response |-> None, error |-> "None", attempts |-> 0]
    ELSE
      Let([r \in {generate_insights(prepare_financial_data_for_llm(data), env)} |->
        IF r.error \in {"LLMServiceError", "Exception"}
        THEN [response |-> None, error |-> "None", attempts |-> r.attempts]
        ELSE r])

\* calculate_financial_ratios of dashboard/utils.py raises TypeError: a None
\* grossProfit or netProfit divided by a non-zero trading income
calculate_financial_ratios_raises(data) ==
    /\ "tradingIncome" \in data.sections.keys
    /\ data.sections.tradingIncome.total # 0
    /\ \/ "grossProfit" \in data.sections.keys /\ data.sections.grossProfit = None
       \/ "netProfit" \in data.sections.keys /\ data.sections.netProfit = None

\* the API's reply to one attempt of a call
ApiReplies ==
    {"json", "json_incomplete", "not_json", "Exception",
     "APIConnectionError", "RateLimitError", "APIError"}

\* no call of LLMService._call_openai_api made
NoOutcome == [content |-> "none", error |-> "None", attempts |-> 0]

NoCall == [api_key |-> FALSE, replies |-> <<>>, outcome |-> NoOutcome]

NoInsights ==
    [env |-> [use_llm |-> FALSE, cached |-> FALSE, api_key |-> FALSE, last |-> "none"],
     called |-> FALSE, response |-> None, attempts |-> 0, shown |-> "none",
     error |-> "None"]

\* render_insights: shown is "llm" or "rule_based"; error is the exception
\* that leaves it; env keeps the session's settings and the API's last reply
render_insights(data, env) ==
    LET met == [use_llm |-> env.use_llm, cached |-> env.cached, api_key |-> env.api_key,
                last |-> IF env.replies = <<>> THEN "none"
                         ELSE env.replies[Len(env.replies)]]
    IN
    IF calculate_financial_ratios_raises(data)
    THEN [NoInsights EXCEPT !.env = met, !.error = "TypeError"]
    ELSE IF ~env.use_llm
    THEN [NoInsights EXCEPT !.env = met, !.shown = "rule_based"]
    ELSE
      Let([llm_response \in {generate_llm_insights(data, env)} |->
        [env |-> met, called |-> TRUE, response |-> llm_response.response,
         attempts |-> llm_response.attempts,
         shown |-> IF llm_response.error # "None" THEN "none"
                   ELSE IF llm_response.response # None THEN "llm" ELSE "rule_based",
         error |-> llm_response.error]])

----------------------------------------------------------------------------
(* Categories: src/utils/categorization.py.  An account dict's 'category' is
   kept beside the account: one category per account of a section, "" while the
   dict has no such key.  Dicts are objects: heap maps the identity of a
   sections dict, with its account dicts, to these categories. *)

\* ACCOUNT_CATEGORIES in its order: each keyword the vocabulary can hold, as
\* the word sequences that hold it
ACCOUNT_CATEGORIES ==
    << [holds |-> {<<"sales">>}, category |-> "Sales"],
       [holds |-> {<<"revenue">>}, category |-> "Sales"],
       [holds |-> {<<"income">>}, category |-> "Sales"],
       [holds |-> {<<"services">>}, category |-> "Service Revenue"],
       [holds |-> {<<"cost", "of", "goods", "sold">>}, category |-> "Direct Costs"],
       [holds |-> {<<"cogs">>}, category |-> "Direct Costs"],
       [holds |-> {<<"direct", "costs">>, <<"indirect", "costs">>, <<"direct", "cost">>,
                   <<"indirect", "cost">>},
        category |-> "Direct Costs"],
       [holds |-> {<<"materials">>}, category |-> "Materials"],
       [holds |-> {<<"freight">>}, category |-> "Freight & Shipping"],
       [holds |-> {<<"wages">>}, category |-> "Salaries & Wages"],
       [holds |-> {<<"rent">>}, category |-> "Rent & Lease"],
       [holds |-> {<<"consulting">>}, category |-> "Consulting"] >>

\* categorize_account: by the code's digits, then by the first keyword in the
\* name, then the section's default
categorize_account(account, section) ==
    LET account_name == lower(account.name)
        clean_code == SelectSeq(account.code, LAMBDA t : t \in Digits)
        code_num == DigitsVal(clean_code)
        hits == {k \in 1..Len(ACCOUNT_CATEGORIES) :
                    AnyIn(ACCOUNT_CATEGORIES[k].holds, account_name)}
    IN  IF clean_code # <<>> /\ code_num >= 1000 /\ code_num <= 9999
        THEN CASE code_num <= 1999 -> "Assets"
               [] code_num <= 2999 -> "Liabilities"
               [] code_num <= 3999 -> "Equity"
               [] code_num <= 4999 -> "Revenue"
               [] code_num <= 5999 -> "Cost of Sales"
               [] OTHER -> "Expenses"
        ELSE IF hits # {}
        THEN ACCOUNT_CATEGORIES[CHOOSE k \in hits : \A h \in hits : k <= h].category
        ELSE CASE section = "tradingIncome" -> "Sales"
               [] section = "costOfSales" -> "Direct Costs"
               [] OTHER -> "Other Expenses"

\* the accounts of a section of data; none when the section is absent
AccountsOf(data, section) ==
    IF section \in data.sections.keys THEN data.sections[section].accounts ELSE <<>>

\* data.copy(): a new dict with the same values, so the same sections dict
dict_copy(obj) == [sections |-> obj.sections]

\* add_categories_to_accounts: data is what the caller's dict reads afterwards,
\* returned is what the returned dict reads
add_categories_to_accounts(data) ==
    LET Ranged == {"tradingIncome", "costOfSales", "operatingExpenses"}
        data_obj == [sections |-> 0]
        result_obj == dict_copy(data_obj)
        before == [id \in {0, 1} |->
                      [s \in Ranged |-> [i \in 1..Len(AccountsOf(data, s)) |-> ""]]]
        heap == [before EXCEPT ![result_obj.sections] =
                    [s \in Ranged |->
                        [i \in 1..Len(AccountsOf(data, s)) |->
                            categorize_account(AccountsOf(data, s)[i], s)]]]
    IN  [data |-> heap[data_obj.sections], returned |-> heap[result_obj.sections]]

NotCategorized ==
    LET none == [s \in {"tradingIncome", "costOfSales", "operatingExpenses"} |-> <<>>]
    IN  [data |-> none, returned |-> none]

----------------------------------------------------------------------------
(* Sheets *)

\* the width of the generated sheets: a label column, a value column last
NCols == 2

\* the longest sheet of the sheets of arbitrary rows
MaxRows == 3

\* a row with a label in the first column and a value in the last
Row(label, value) ==
    [j \in 1..NCols |-> IF j = 1 THEN Str(label) ELSE IF j = NCols THEN value ELSE EmptyCell]

\* rows in any order: headers, accounts and total rows around the thresholds
\* (0.005 < 0.01; 0.19 against 0.2 is a discrepancy of exactly 5%)
RowAlphabet ==
    { Row(<<"Sales">>, EmptyCell),
      Row(<<"cost", "of", "sales">>, EmptyCell),
      Row(<<"operating", "expenses">>, EmptyCell),
      Row(<<"widgets">>, Num(190)),
      Row(<<"widgets">>, EmptyCell),
      Row(<<"widgets">>, Str(<<"n", "/", "a">>)),
      Row(<<"Total", "Sales">>, Num(200)),
      Row(<<"total", "cost", "of", "sales">>, Num(10)),
      Row(<<"total">>, Num(5)),
      Row(<<"total">>, EmptyCell),
      Row(<<"gross", "profit">>, Str(<<"n", "/", "a">>)) }

\* every sheet of at most MaxRows rows of the alphabet
FreeSheets == UNION {[1..k -> RowAlphabet] : k \in 0..MaxRows}

\* sheets with rows and no columns
ZeroColumnSheets == {[i \in 1..k |-> <<>>] : k \in 0..MaxRows}

\* a report in the usual order; every row may be missing
ReportLayout ==
    << {Row(<<"trading", "income">>, EmptyCell)},
       {Row(<<"widgets">>, Num(1000000))},
       {Row(<<"cost", "of", "sales">>, EmptyCell)},
       {Row(<<"materials">>, Num(400000))},
       {Row(<<"total", "cost", "of", "sales">>, Num(400000))},
       {Row(<<"gross", "profit">>, v) :
           v \in {EmptyCell, Num(5), Num(500000), Str(<<"5", "0", "0">>),
                  Str(<<"-", "5", "0", "0">>)}},
       {Row(<<"operating", "expenses">>, EmptyCell)},
       {Row(<<"rent">>, Num(100000))},
       {Row(<<"net", "profit">>, v) :
           v \in {EmptyCell, Num(5), Num(250000), Str(<<"-", "2", "5", "0">>),
                  Str(<<"2", "-", "5">>)}} >>

RECURSIVE LayoutSheets(_)
LayoutSheets(k) ==
    IF k = 0 THEN {<<>>}
    ELSE {g \o r : g \in LayoutSheets(k - 1),
                   r \in {<<>>} \cup {<<x>> : x \in ReportLayout[k]}}

ReportSheets == LayoutSheets(Len(ReportLayout))

\* a row of empty cells
EmptyRow == [j \in 1..NCols |-> EmptyCell]

\* rows 5 to 17 of a full report: three income accounts, two cost accounts
\* and three expense accounts, costs and expenses with the sign given, and the
\* cells of the gross-profit and net-profit rows
ReportBody(costSign, expenseSign, gross, net) ==
    << Row(<<"Trading", "Income">>, EmptyCell),
       Row(<<"consulting">>, Num(3000000)),
       Row(<<"products">>, Num(1500000)),
       Row(<<"services">>, Num(500000)),
       Row(<<"Cost", "of", "Sales">>, EmptyCell),
       Row(<<"materials">>, Num(costSign * 700000)),
       Row(<<"freight">>, Num(costSign * 500000)),
       Row(<<"Gross", "Profit">>, gross),
       Row(<<"Operating", "Expenses">>, EmptyCell),
       Row(<<"rent">>, Num(expenseSign * 1000000)),
       Row(<<"wages">>, Num(expenseSign * 600000)),
       Row(<<"utilities">>, Num(expenseSign * 400000)),
       Row(<<"Net", "Profit">>, net) >>

\* rows 0 to 4 of a full report: company, title and period, basis, two empty rows
ReportHead(company, title, basis) == <<company, title, basis, EmptyRow, EmptyRow>>

\* full reports: the head rows present or empty, the period stated in three
\* ways or not at all, costs and expenses of either sign
FullReports ==
    {ReportHead(company, title, basis) \o ReportBody(costSign, expenseSign, gross, EmptyCell) :
        company \in {Row(<<"Acme", "Corp">>, EmptyCell), EmptyRow},
        title \in {Row(<<"Profit", "and", "Loss", "-", "For", "the", "Year", "Ended",
                         "December", "2024">>, EmptyCell),
                   Row(<<"Profit", "and", "Loss", "-", "December", "2024">>, EmptyCell),
                   Row(<<"Profit", "and", "Loss">>, EmptyCell)},
        basis \in {Row(<<"Accrual", "Basis">>, EmptyCell),
                   Row(<<"Cash", "Basis">>, EmptyCell), EmptyRow},
        costSign \in {-1, 1},
        expenseSign \in {-1, 1},
        gross \in {EmptyCell, Num(3800000)}}

----------------------------------------------------------------------------
(* The program: a sheet is loaded, then one of the two entry points analyses it *)

NoResult ==
    [companyName |-> <<>>, period |-> <<>>, basisType |-> "", reportType |-> "",
     sections |-> EmptySections]

NoInternals ==
    [sections |-> InitialSections, current_section |-> NoSection, raised |-> FALSE,
     trading_end |-> None, tradingIncome |-> NoAccounts,
     costOfSales |-> NoAccounts, operatingExpenses |-> NoAccounts]

Loaded(sheets) ==
    /\ grid \in sheets
    /\ pc = "load"
    /\ result = NoResult
    /\ internals = NoInternals
    /\ previous = NoResult
    /\ metrics = EmptyMetrics
    /\ insights = NoInsights
    /\ categorized = NotCategorized
    /\ llm_call = NoCall

Init == Loaded(FreeSheets \cup ZeroColumnSheets)

InitReport == Loaded(ReportSheets)

InitFull == Loaded(FullReports)

\* main.py: result = analyze_profit_loss(file_path); the program may be run
\* again on the same sheet, previous is the result of the run before
RunMain ==
    /\ pc \in {"load", "main"}
    /\ previous' = result
    /\ \E r \in {analyze_profit_loss(grid)} :
           /\ result' = IF r.internals.raised THEN NoResult ELSE r.result
           /\ internals' = r.internals
    /\ pc' = "main"
    /\ UNCHANGED <<grid, metrics, insights, categorized, llm_call>>

\* app.py, dashboard/app.py: result = analyze_profit_loss(file_path) of src.core.analyzer
RunApp ==
    /\ pc \in {"load", "app"}
    /\ previous' = result
    /\ \E r \in {core_analyze_profit_loss(grid)} :
           /\ result' = IF r.internals.raised THEN NoResult ELSE r.result
           /\ internals' = r.internals
    /\ pc' = "app"
    /\ UNCHANGED <<grid, metrics, insights, categorized, llm_call>>

\* the dashboard's metrics of an analyzer output
RunMetrics ==
    /\ pc \in {"main", "app"}
    /\ metrics' = calculate_financial_metrics(result)
    /\ pc' = "metrics"
    /\ UNCHANGED <<grid, result, internals, previous, insights, categorized, llm_call>>

\* the dashboard's insights section, for the result of its analyzer
RunInsights ==
    /\ pc = "app"
    /\ \E env \in Environments : insights' = render_insights(result, env)
    /\ pc' = "insights"
    /\ UNCHANGED <<grid, result, internals, previous, metrics, categorized, llm_call>>

\* the categories of an analyzer output's accounts
RunCategories ==
    /\ pc \in {"main", "app"}
    /\ categorized' = add_categories_to_accounts(result)
    /\ pc' = "categorized"
    /\ UNCHANGED <<grid, result, internals, previous, metrics, insights, llm_call>>

Next == RunMain \/ RunApp \/ RunMetrics \/ RunInsights \/ RunCategories

Spec == Init /\ [][Next]_vars

SpecReport == InitReport /\ [][Next]_vars

SpecFull == InitFull /\ [][Next]_vars

\* an LLMService whose _call_openai_api is about to be called: OPENAI_API_KEY
\* set or not, and what the API would reply to each of max_retries attempts
InitService ==
    /\ grid = <<>>
    /\ pc = "call"
    /\ result = NoResult
    /\ internals = NoInternals
    /\ previous = NoResult
    /\ metrics = EmptyMetrics
    /\ insights = NoInsights
    /\ categorized = NotCategorized
    /\ llm_call \in [api_key : BOOLEAN, replies : [1..max_retries -> ApiReplies],
                      outcome : {NoOutcome}]

\* llm_response = self._call_openai_api(prompt)
CallOpenAiApi ==
    /\ pc = "call"
    /\ llm_call' = [llm_call EXCEPT
                        !.outcome = call_openai_api(llm_call.api_key, llm_call.replies, 0)]
    /\ pc' = "called"
    /\ UNCHANGED <<grid, result, internals, previous, metrics, insights, categorized>>

NextService == CallOpenAiApi

SpecService == InitService /\ [][NextService]_vars

----------------------------------------------------------------------------
(* Claims *)

Ranged == {"tradingIncome", "costOfSales", "operatingExpenses"}

Analysed == pc # "load"

\* the ranged sections present in result["sections"]
Included == result.sections.keys \cap Ranged

\* |x| < 0.01 for a number x
C_NearZero(x) == x # NaN /\ -10 < x /\ x < 10

\* |e - c| is more than 5% of max(|e|, |c|), for numbers e and c
C_MoreThanFivePercent(e, c) ==
    /\ e # NaN
    /\ c # NaN
    /\ LET d == IF e >= c THEN e - c ELSE c - e
           m == Max(IF e < 0 THEN -e ELSE e, IF c < 0 THEN -c ELSE c)
       IN  100 * d > 5 * m

\* the total the reconciliation rule names for (extractedTotal, calculatedTotal)
C_Reconciled(e, c) ==
    IF e = None \/ C_NearZero(e) \/ (c # None /\ C_MoreThanFivePercent(e, c))
    THEN c ELSE e

C2_SameRuleEverySection ==
    Analysed =>
        \A s1 \in Included : \A s2 \in Included :
            (/\ internals[s1].extracted_total = internals[s2].extracted_total
             /\ internals[s1].calculated_total = internals[s2].calculated_total)
            => result.sections[s1].total = result.sections[s2].total

\* the last row of the range a section's accounts are extracted from
C_EffectiveEnd(s) ==
    IF s = "tradingIncome" THEN internals.trading_end ELSE internals.sections[s].end

\* digits with one optional leading '-' and one optional '.'
C_NumericText(w) ==
    LET u == IF w # <<>> /\ Head(w) = "-" THEN Tail(w) ELSE w
    IN  /\ \A i \in 1..Len(u) : u[i] \in Digits \cup {"."}
        /\ Cardinality({i \in 1..Len(u) : u[i] = "."}) <= 1
        /\ \E i \in 1..Len(u) : u[i] \in Digits

\* a cell that holds a number or a numeric text
C_Numeric(c) == c.t = "num" \/ (c.t = "str" /\ C_NumericText(c.w))

\* the values the total rows of a section's range hold
C_SheetTotals(s) ==
    {FloatOf(grid[i + 1][j]) :
        <<i, j>> \in {p \in (0..(Len(grid) - 1)) \X (1..ncols(grid)) :
                        /\ internals.sections[s].start <= p[1]
                        /\ p[1] <= C_EffectiveEnd(s)
                        /\ HasTotal(row_str(grid[p[1] + 1]))
                        /\ C_Numeric(grid[p[1] + 1][p[2]])}}

\* C3: the total of an included ranged section is a value of a total row of
\* the section's range or the sum of the section's accounts.
C3_TotalFromSheetOrSum ==
    Analysed =>
        \A s \in Included :
            \/ result.sections[s].total \in C_SheetTotals(s)
            \/ result.sections[s].total = SumValues(result.sections[s].accounts)

\* the value of the right-most numeric or numeric-text cell of row i (0-based),
\* None when the row has none
C_Stated(i) ==
    LET row == grid[i + 1]
        js  == {j \in 1..Len(row) : C_Numeric(row[j])}
    IN  IF js = {} THEN None ELSE FloatOf(row[CHOOSE j \in js : \A k \in js : k <= j])

\* row i states a value of magnitude at least 0.01
C_StatesValue(i) == i # None /\ C_Stated(i) # None /\ ~C_NearZero(C_Stated(i))

\* C4: when the right-most numeric or numeric-text cell of the gross-profit row
\* has magnitude at least 0.01, grossProfit is that value.
C4_GrossProfitParsedFirst ==
    (Analysed /\ C_StatesValue(internals.sections.grossProfit.row)) =>
        /\ "grossProfit" \in result.sections.keys
        /\ result.sections.grossProfit = C_Stated(internals.sections.grossProfit.row)

\* C5: when the sheet states no gross-profit value of magnitude at least 0.01
\* (no such value in the gross-profit row, or no gross-profit row) and both
\* tradingIncome and costOfSales are in the result, grossProfit is
\* tradingIncome.total - costOfSales.total.
C5_GrossProfitDerived ==
    (/\ Analysed
     /\ ~C_StatesValue(internals.sections.grossProfit.row)
     /\ {"tradingIncome", "costOfSales"} \subseteq result.sections.keys) =>
        /\ "grossProfit" \in result.sections.keys
        /\ result.sections.grossProfit =
               FSub(result.sections.tradingIncome.total, result.sections.costOfSales.total)

\* C6: netProfit is the right-most numeric or numeric-text cell of the
\* net-profit row when its magnitude is at least 0.01; otherwise it is
\* grossProfit - operatingExpenses.total when a grossProfit value is available
\* and operatingExpenses is in the result; otherwise it is absent (None).
C6_NetProfitRule ==
    Analysed =>
        LET secs == result.sections
        IN  IF C_StatesValue(internals.sections.netProfit.row)
            THEN secs.netProfit = C_Stated(internals.sections.netProfit.row)
            ELSE IF /\ "grossProfit" \in secs.keys
                    /\ secs.grossProfit # None
                    /\ "operatingExpenses" \in secs.keys
            THEN secs.netProfit = FSub(secs.grossProfit, secs.operatingExpenses.total)
            ELSE secs.netProfit = None

\* the cost-of-sales start row lies strictly inside the detected trading-income range
C_CostOfSalesInsideTrading ==
    LET b == internals.sections
    IN  /\ HasRange(b.tradingIncome)
        /\ b.costOfSales.start # None
        /\ b.tradingIncome.start < b.costOfSales.start
        /\ b.costOfSales.start < b.tradingIncome.end

\* C7: when the cost-of-sales start row lies strictly inside the detected
\* trading-income range, the end used for extracting trading income is
\* costOfSales.start - 1 and no trading-income account comes from a later row;
\* the range [5, 20] with Cost of Sales at row 12 gives 11.
C7_BoundaryClamp ==
    /\ (Analysed /\ C_CostOfSalesInsideTrading) =>
          /\ internals.trading_end = internals.sections.costOfSales.start - 1
          /\ \A k \in 1..Len(result.sections.tradingIncome.accounts) :
                result.sections.tradingIncome.accounts[k].row
                    <= internals.sections.costOfSales.start - 1
    /\ TradingEnd([InitialSections EXCEPT !.tradingIncome.start = 5,
                                          !.tradingIncome.end = 20,
                                          !.costOfSales.start = 12]) = 11

\* C7 witness: the clamp applies, trading income keeps its own account and an
\* account row of the sheet lies between the clamped end and the detected end
C7_Witness ==
    /\ pc = "main"
    /\ C_CostOfSalesInsideTrading
    /\ result.sections.tradingIncome.accounts # <<>>
    /\ \E k \in 1..Len(result.sections.costOfSales.accounts) :
          /\ result.sections.costOfSales.accounts[k].row > internals.trading_end
          /\ result.sections.costOfSales.accounts[k].row <= internals.sections.tradingIncome.end

\* C8: a ranged section is in result["sections"] only if its extraction emitted
\* an account; no included ranged section has an empty accounts list.
C8_NoEmptySection ==
    Analysed =>
        \A s \in Included :
            /\ result.sections[s].accounts # <<>>
            /\ result.sections[s].accounts = internals[s].accounts

\* C8 witness: cost of sales has a resolved range that emits no account and is
\* left out, while trading income is included
C8_Witness ==
    /\ pc = "main"
    /\ HasRange(internals.sections.costOfSales)
    /\ internals.sections.costOfSales.end > internals.sections.costOfSales.start
    /\ internals.costOfSales.accounts = <<>>
    /\ "costOfSales" \notin result.sections.keys
    /\ "tradingIncome" \in result.sections.keys

\* C9: reportType is "Complete" exactly when the detector resolved a start row
\* for trading income and for cost of sales, "Partial" otherwise.
C9_ReportType ==
    Analysed =>
        /\ result.reportType \in {"Complete", "Partial"}
        /\ result.reportType = "Complete" <=>
              /\ internals.sections.tradingIncome.start # None
              /\ internals.sections.costOfSales.start # None

\* C10: for a sheet with zero rows or zero columns the result has reportType
\* "Partial", no sections, companyName "Unknown Company", period
\* "Unknown Period" and basisType "Accrual".
C10_EmptySheet ==
    (Analysed /\ (len(grid) = 0 \/ ncols(grid) = 0)) =>
        /\ result.reportType = "Partial"
        /\ result.sections.keys = {}
        /\ result.companyName = <<"Unknown", "Company">>
        /\ result.period = <<"Unknown", "Period">>
        /\ result.basisType = "Accrual"

\* C11: companyName, period and basisType are never null; companyName is
\* "Unknown Company" when no scanned row yields a company name, period is
\* "Unknown Period" when no scanned row matches the period pattern, and
\* basisType is "Accrual" when neither basis phrase is found.
C11_MetadataFallbacks ==
    Analysed =>
        /\ result.companyName # <<>>
        /\ result.period # <<>>
        /\ result.basisType \in {"Accrual", "Cash"}
        /\ extract_company_and_period(grid).company_name = <<>>
              => result.companyName = <<"Unknown", "Company">>
        /\ extract_company_and_period(grid).period = <<>>
              => result.period = <<"Unknown", "Period">>
        /\ (\A i \in 1..Len(grid) :
                /\ ~Contains(row_str(grid[i]), <<"accrual", "basis">>)
                /\ ~Contains(row_str(grid[i]), <<"cash", "basis">>))
              => result.basisType = "Accrual"

\* C12: whatever cells the sheet holds and whichever keywords, totals or
\* metadata rows are missing, no exception leaves analyze_profit_loss and a
\* result is returned.
C12_BestEffort ==
    Analysed =>
        /\ ~internals.raised
        /\ result.reportType \in {"Complete", "Partial"}
        /\ result.basisType \in {"Accrual", "Cash"}
        /\ result.sections.keys \subseteq Ranged \cup PointSections

\* C12 witness: a result is returned for a sheet without a cost-of-sales
\* header whose trading-income range holds a row with a text that float()
\* rejects in the value column
C12_Witness ==
    /\ pc = "main"
    /\ ~internals.raised
    /\ result.reportType \in {"Complete", "Partial"}
    /\ internals.sections.costOfSales.start = None
    /\ HasRange(internals.sections.tradingIncome)
    /\ \E i \in (internals.sections.tradingIncome.start + 1)..internals.trading_end :
          /\ ~HasTotal(row_str(grid[i + 1]))
          /\ FloatRaises(grid[i + 1][ncols(grid)])

C_EndToEndBody ==
    /\ Len(grid) = 18
    /\ SubSeq(grid, 6, 18) = ReportBody(-1, -1, EmptyCell, EmptyCell)

\* C14: for the end-to-end sheet the result has tradingIncome.total = 5000,
\* costOfSales.total = -1200, grossProfit = 3800, operatingExpenses.total =
\* -2000 and netProfit = 1800.
C14_EndToEndTotals ==
    (Analysed /\ C_EndToEndBody) =>
        /\ {"tradingIncome", "costOfSales", "grossProfit", "operatingExpenses", "netProfit"}
               \subseteq result.sections.keys
        /\ result.sections.tradingIncome.total = 5000000
        /\ result.sections.costOfSales.total = -1200000
        /\ result.sections.grossProfit = 3800000
        /\ result.sections.operatingExpenses.total = -2000000
        /\ result.sections.netProfit = 1800000

\* the sheet is the end-to-end sheet with its head: 'Acme Corp', 'Profit and
\* Loss - For the Year Ended December 2024', 'Accrual Basis'
C_EndToEndSheet ==
    /\ C_EndToEndBody
    /\ grid[1] = Row(<<"Acme", "Corp">>, EmptyCell)
    /\ grid[2] = Row(<<"Profit", "and", "Loss", "-", "For", "the", "Year", "Ended",
                       "December", "2024">>, EmptyCell)
    /\ grid[3] = Row(<<"Accrual", "Basis">>, EmptyCell)

\* C15 as stated: for the end-to-end sheet the result has period "December
\* 2024", basisType "Accrual" and reportType "Complete".
C15_EndToEndMetadata ==
    (Analysed /\ C_EndToEndSheet) =>
        /\ result.period = <<"December", "2024">>
        /\ result.basisType = "Accrual"
        /\ result.reportType = "Complete"

\* C15 amended: for the end-to-end sheet the result has period "For The Year
\* Ended December 2024" (the whole text the pattern matches, title-cased),
\* basisType "Accrual" and reportType "Complete".
C15_EndToEndMetadataAmended ==
    (Analysed /\ C_EndToEndSheet) =>
        /\ result.period = <<"For", "The", "Year", "Ended", "December", "2024">>
        /\ result.basisType = "Accrual"
        /\ result.reportType = "Complete"

\* C15 witness: analyze_profit_loss.py has analysed the end-to-end sheet and
\* returned its five sections
C15_Witness ==
    /\ pc = "main"
    /\ C_EndToEndSheet
    /\ Cardinality(result.sections.keys) = 5
    /\ result.period # <<>>

\* the value the ratio engine uses for a section total or for netProfit: 0
\* when it is absent or null
C_Input(name) ==
    IF name \notin result.sections.keys THEN 0
    ELSE IF name = "netProfit"
    THEN (IF result.sections.netProfit = None THEN 0 ELSE result.sections.netProfit)
    ELSE result.sections[name].total

\* the denominator of a named ratio: revenue for the margins, and the
\* balance-sheet amounts, which a profit and loss sheet does not state, are 0
C_Denominator(name) ==
    IF name \in {"gross_margin", "net_margin", "operating_margin"}
    THEN C_Input("tradingIncome") ELSE 0

\* every named ratio is in the mapping, and is null exactly when its
\* denominator is zero
C_EveryRatio ==
    \A name \in RatioNames :
        /\ name \in metrics.keys
        /\ metrics.values[name] = NoRatio <=> C_Denominator(name) = 0

\* C16 as stated: for every analyzer output the mapping holds every named
\* ratio, each null exactly when its denominator is zero, absent inputs
\* (tradingIncome among them) counting as 0.
C16_RatioEngine ==
    pc = "metrics" => C_EveryRatio

\* C16 amended: when the analyzer output has no tradingIncome section the
\* mapping is empty; otherwise it holds every named ratio, each null exactly
\* when its denominator is zero, an absent costOfSales or operatingExpenses
\* section and an absent or null netProfit counting as 0.
C16_RatioEngineAmended ==
    pc = "metrics" =>
        IF "tradingIncome" \notin result.sections.keys
        THEN metrics.keys = {}
        ELSE /\ C_EveryRatio
             /\ metrics.values["net_margin"] \in
                    {NoRatio, Times100(Quotient(C_Input("netProfit"), C_Input("tradingIncome")))}
             /\ metrics.values["gross_margin"] \in
                    {NoRatio,
                     Times100(Quotient(FSub(C_Input("tradingIncome"), C_Input("costOfSales")),
                                       C_Input("tradingIncome")))}

\* C16 witness: metrics of an output with tradingIncome and without
\* costOfSales and netProfit: the margins are numbers, the balance-sheet
\* ratios are null
C16_Witness ==
    /\ pc = "metrics"
    /\ result.sections.keys = {"tradingIncome"}
    /\ metrics.values["gross_margin"] # NoRatio
    /\ metrics.values["net_margin"] = [n |-> 0, d |-> result.sections.tradingIncome.total]
    /\ metrics.values["return_on_equity"] = NoRatio

\* the insight generator fails: the request data is invalid, or no cached
\* response serves the request and the API key is missing, the last attempt
\* ended in an API error, or the reply is not valid JSON or lacks a required
\* field
C_GeneratorFails ==
    /\ insights.called
    /\ \/ result.companyName = <<>> \/ result.period = <<>>
       \/ /\ ~insights.env.cached
          /\ \/ ~insights.env.api_key
             \/ insights.env.last \in
                    {"APIConnectionError", "RateLimitError", "APIError", "Exception",
                     "not_json", "json_incomplete"}

\* C17: generate_llm_insights never raises; whenever the insight generator
\* fails (missing API key, API error after all retries, a reply that is not
\* valid JSON or lacks a required field, invalid request data) it returns None
\* and the caller shows the rule-based insights.
C17_InsightFailuresTolerated ==
    pc = "insights" =>
        /\ insights.called => insights.error = "None"
        /\ C_GeneratorFails => insights.response = None /\ insights.shown = "rule_based"

\* C17 witness: with an API key set, three attempts each ended in an API
\* error and the rule-based insights are shown
C17_Witness ==
    /\ pc = "insights"
    /\ insights.called
    /\ insights.env.api_key
    /\ insights.attempts = max_retries
    /\ insights.env.last = "RateLimitError"
    /\ insights.response = None
    /\ insights.shown = "rule_based"

\* the generator's successes reach the caller too: a complete JSON reply is
\* shown as the generated insights
C17_WitnessGenerated ==
    /\ pc = "insights"
    /\ insights.env.last = "json"
    /\ insights.attempts = 2
    /\ insights.shown = "llm"

\* C18: add_categories_to_accounts returns the categorized data and leaves its
\* input unchanged: afterwards every account of the returned data has a
\* category and no account of the input data has one.
C18_InputNotMutated ==
    pc = "categorized" =>
        \A s \in {"tradingIncome", "costOfSales", "operatingExpenses"} :
            \A i \in 1..Len(AccountsOf(result, s)) :
                /\ categorized.returned[s][i] # ""
                /\ categorized.data[s][i] = ""

\* the sections whose recorded start or row is row i
C_MarkedAt(i) ==
    {s \in DOMAIN internals.sections : core_Position(internals.sections, s) = i}

\* the sections with a keyword in the text of row i, for the analyzer that ran
C_MatchingAt(i) ==
    LET rs == row_str(iloc(grid, i))
        keywords == IF pc = "main" THEN section_keywords ELSE core_section_keywords
    IN  {k \in 1..Len(SectionOrder) : AnyIn(keywords[SectionOrder[k]], rs)}

C_RowsMatching(s) ==
    LET keywords == IF pc = "main" THEN section_keywords ELSE core_section_keywords
    IN  {i \in 0..(len(grid) - 1) : AnyIn(keywords[s], row_str(iloc(grid, i)))}

C20_PointKeepsFirstMatch ==
    pc \in {"main", "app"} =>
        \A s \in PointSections :
            IF C_RowsMatching(s) = {}
            THEN internals.sections[s].row = None
            ELSE /\ internals.sections[s].row \in C_RowsMatching(s)
                 /\ \A i \in C_RowsMatching(s) : internals.sections[s].row <= i

\* the scan's locals before row i of the sheet is read, and after it
C_ScanBefore(i) == ScanRows(SubSeq(grid, 1, i), ScanStart(NoSection), 0)

C_ScanAfter(i) == ScanRowFrom(C_ScanBefore(i), i, row_str(iloc(grid, i)), 1)

\* row i records the start of ranged section s
C_RecordsStart(i, s) ==
    /\ C_ScanBefore(i).sections[s].start = None
    /\ C_ScanAfter(i).sections[s].start = i

\* C21: opening closes the previous section: when row i records the start of
\* a ranged section while a different ranged section is open without an end,
\* that row sets the open section's end to i - 1 and changes the end of no
\* other section.
C21_OpeningClosesPrevious ==
    pc = "main" =>
        \A i \in 0..(len(grid) - 1) : \A s \in Ranged :
            LET open == C_ScanBefore(i).current
            IN  (/\ C_RecordsStart(i, s)
                 /\ open \in Ranged \ {s}
                 /\ C_ScanBefore(i).sections[open].end = None)
                => /\ C_ScanAfter(i).sections[open].end = i - 1
                   /\ \A t \in Ranged \ {open} :
                          C_ScanAfter(i).sections[t].end = C_ScanBefore(i).sections[t].end

\* row i holds "total" together with a keyword of section s
C_TotalRowOf(i, s) ==
    LET rs == row_str(iloc(grid, i))
    IN  HasTotal(rs) /\ AnyIn(section_keywords[s], rs)

\* row i is the total line of a section other than s: each keyword of s in the
\* row lies inside a keyword of that section in the row ("sales" inside "cost
\* of sales")
C_OthersTotalLine(i, s) ==
    LET rs == row_str(iloc(grid, i))
    IN  \E t \in Ranged \ {s} :
            /\ C_TotalRowOf(i, t)
            /\ \A kw \in section_keywords[s] :
                   Contains(rs, kw) =>
                       \E kt \in section_keywords[t] :
                           Contains(rs, kt) /\ Contains(kt, kw) /\ kt # kw

\* C22: a row holding "total" and a keyword of ranged section S sets S.end to
\* its index and leaves no section open; after the scan S.end is the index
\* of such a row of S and not of the total line of another section.
C22_TotalRowCloses ==
    pc = "main" =>
        \A s \in Ranged :
            /\ \A i \in 0..(len(grid) - 1) :
                   C_TotalRowOf(i, s) =>
                       /\ C_ScanAfter(i).sections[s].end = i
                       /\ C_ScanAfter(i).current = NoSection
            /\ (\E i \in 0..(len(grid) - 1) : C_TotalRowOf(i, s)) =>
                   LET end == C_ScanBefore(len(grid)).sections[s].end
                   IN  /\ end # None
                       /\ C_TotalRowOf(end, s)
                       /\ ~C_OthersTotalLine(end, s)

\* the section keywords of the analyzer that ran
C_Keywords == IF pc = "main" THEN section_keywords ELSE core_section_keywords

\* the boundaries when the main scan of the analyzer that ran ends
C_Scanned ==
    IF pc = "main" THEN C_ScanBefore(len(grid)).sections
    ELSE core_ScanRows(grid, InitialSections, 0)

\* row i holds a keyword of a section other than s
C_OtherKeywordAt(i, s) ==
    \E k \in 1..Len(SectionOrder) :
        SectionOrder[k] # s /\ AnyIn(C_Keywords[SectionOrder[k]], row_str(iloc(grid, i)))

\* the ends the post-pass may give section s: at the first row after start
\* that holds "total" or another section's keyword, that row for "total" and
\* the row before it for the keyword; None when no row after start holds either
C_PostPassEnds(s) ==
    LET start == C_Scanned[s].start
        stops == {i \in (start + 1)..(len(grid) - 1) :
                     HasTotal(row_str(iloc(grid, i))) \/ C_OtherKeywordAt(i, s)}
        first == CHOOSE i \in stops : \A j \in stops : i <= j
    IN  IF stops = {} THEN {None}
        ELSE {first : x \in {1} \cap {IF HasTotal(row_str(iloc(grid, first))) THEN 1 ELSE 0}}
               \cup {first - 1 : x \in {1} \cap {IF C_OtherKeywordAt(first, s) THEN 1 ELSE 0}}

\* C23: a ranged section with a start and no end after the main scan gets as
\* its end the first row after start holding "total", or the row before the
\* first row after start holding another section's keyword, whichever comes
\* first; when there is neither, the end stays null and the section is left
\* out of the result.
C23_PostPass ==
    pc \in {"main", "app"} =>
        \A s \in Ranged :
            (C_Scanned[s].start # None /\ C_Scanned[s].end = None)
            => /\ internals.sections[s].end \in C_PostPassEnds(s)
               /\ internals.sections[s].end = None => s \notin result.sections.keys

\* a cell that holds a number or numeric text
C_NumericCell(c) == notna(c) /\ ~FloatRaises(c)

\* the rows extract_accounts emitted as accounts of section s
C_EmittedRows(s) == {internals[s].accounts[k].row : k \in 1..Len(internals[s].accounts)}

\* C24: every Account extract_accounts emits has a non-empty name and the
\* numeric value of its row's value-column cell; a row whose value-column
\* cell is empty or not numeric emits no Account and adds nothing to
\* calculatedTotal; the header row at start is never emitted.
C24_AccountsHaveValues ==
    pc = "main" =>
        \A s \in Ranged :
            /\ \A k \in 1..Len(internals[s].accounts) :
                   LET account == internals[s].accounts[k]
                       cell == iloc(grid, account.row)[internals[s].value_col + 1]
                   IN  /\ account.name # <<>>
                       /\ C_NumericCell(cell)
                       /\ account.value = FloatOf(cell)
                       /\ account.value # NaN
                       /\ account.row # internals.sections[s].start
            /\ internals[s].accounts # <<>> => internals[s].calculated_total # NaN

\* C25: no row emitted as an Account of a section holds, in its joined text,
\* a boundary keyword of any of the other four sections.
C25_CrossContaminationGuard ==
    pc = "main" =>
        \A s \in Ranged : \A i \in C_EmittedRows(s) :
            \A k \in 1..Len(SectionOrder) :
                SectionOrder[k] # s =>
                    ~AnyIn(section_keywords[SectionOrder[k]], row_str(iloc(grid, i)))

\* the last row of the range extract_accounts was given for section s
C_RangeEnd(s) ==
    IF s = "tradingIncome" THEN internals.trading_end ELSE internals.sections[s].end

\* the columns with a number or numeric text in a row of the range of s
C_NumericColumns(s) ==
    {j \in 0..(ncols(grid) - 1) :
        \E i \in internals.sections[s].start..C_RangeEnd(s) :
            i \in 0..(len(grid) - 1) /\ C_NumericCell(iloc(grid, i)[j + 1])
                                     /\ FloatOf(iloc(grid, i)[j + 1]) # NaN}

\* C26: the value column of a section is the highest column holding a number
\* or numeric text in some row of its range, never a column holding only
\* non-numeric text there; with no numeric cell in the range no accounts are
\* extracted.
C26_ValueColumn ==
    pc = "main" =>
        \A s \in Ranged :
            HasRange(internals.sections[s]) =>
                IF C_NumericColumns(s) = {}
                THEN internals[s].accounts = <<>> /\ internals[s].value_col = None
                ELSE /\ internals[s].value_col \in C_NumericColumns(s)
                     /\ \A j \in C_NumericColumns(s) : j <= internals[s].value_col

\* the rows of the window whose joined text is non-empty and does not start
\* with "profit", "loss", "p&l" or "income"
C_CompanyRows ==
    {i \in 0..(Min(CompanyWindow, len(grid)) - 1) :
        /\ JoinRow(iloc(grid, i)) # <<>>
        /\ lower(JoinRow(iloc(grid, i)))[1] \notin CompanyPrefixes}

\* C27: companyName is the joined text of the first qualifying row of the
\* window, whether or not an earlier row of the window states the period.
C27_CompanyName ==
    (pc \in {"main", "app"} /\ C_CompanyRows # {}) =>
        result.companyName =
            JoinRow(iloc(grid, CHOOSE i \in C_CompanyRows : \A j \in C_CompanyRows : i <= j))

\* C28: after find_section_boundaries every ranged section with a start and
\* an end has 0 <= start <= end <= rowCount - 1.
C28_RangeInvariant ==
    pc \in {"main", "app"} =>
        \A s \in Ranged :
            HasRange(internals.sections[s]) =>
                /\ 0 <= internals.sections[s].start
                /\ internals.sections[s].start <= internals.sections[s].end
                /\ internals.sections[s].end <= len(grid) - 1

\* the rows extract_accounts read for section s: after the header, to the end
C_ExtractedRange(s) ==
    IF HasRange(internals.sections[s]) /\ internals[s].value_col # None
    THEN {i \in (internals.sections[s].start + 1)..C_RangeEnd(s) : i \in 0..(len(grid) - 1)}
    ELSE {}

\* the rows that can supply the extracted total of s: total rows of its range
\* whose value-column cell float() accepts; the last one supplies it
C_TotalSuppliers(s) ==
    {i \in C_ExtractedRange(s) :
        /\ ~IsEmptyRow(iloc(grid, i))
        /\ HasTotal(row_str(iloc(grid, i)))
        /\ ~FloatRaises(iloc(grid, i)[internals[s].value_col + 1])}

\* C29: no row is emitted as an Account in more than one of tradingIncome,
\* costOfSales and operatingExpenses, and no row supplies the extracted total
\* of one section while lying in the row range of another.
C29_NoDoubleCounting ==
    pc = "main" =>
        \A s \in Ranged : \A t \in Ranged \ {s} :
            /\ C_EmittedRows(s) \cap C_EmittedRows(t) = {}
            /\ \A i \in C_TotalSuppliers(s) :
                   (\A j \in C_TotalSuppliers(s) : j <= i)
                   => ~(/\ HasRange(internals.sections[t])
                        /\ internals.sections[t].start <= i
                        /\ i <= C_RangeEnd(t))

\* C30: one call of LLMService._call_openai_api makes at most 3 attempts; an
\* attempt is followed by another only when it is not the last and the API
\* answered it with a connection, rate-limit or API error, never when the key is
\* missing or the answer is not JSON; the call ends by returning the parsed
\* answer of its last attempt or by raising LLMServiceError, never with nothing
C_Retryable == {"APIConnectionError", "RateLimitError", "APIError"}

C_Parsed == {"json", "json_incomplete"}

C30_RetryBound ==
    pc = "called" =>
        LET n == llm_call.outcome.attempts
            out == llm_call.outcome
        IN  /\ n \in 1..3
            /\ \A k \in 1..(n - 1) :
                   /\ llm_call.api_key
                   /\ k < 3
                   /\ llm_call.replies[k] \in C_Retryable
            /\ ~llm_call.api_key => n = 1
            /\ \/ /\ out.error = "None"
                  /\ llm_call.api_key
                  /\ llm_call.replies[n] \in C_Parsed
                  /\ out.content = llm_call.replies[n]
               \/ /\ out.error = "LLMServiceError"
                  /\ out.content = "none"
                  /\ ~llm_call.api_key \/ llm_call.replies[n] \notin C_Parsed
            /\ (llm_call.api_key /\ n < 3) => llm_call.replies[n] \notin C_Retryable

\* two rate-limit errors, then a JSON answer on the third and last attempt
C30_Witness ==
    /\ pc = "called"
    /\ llm_call.api_key
    /\ llm_call.replies = <<"RateLimitError", "RateLimitError", "json">>
    /\ llm_call.outcome = [content |-> "json", error |-> "None", attempts |-> 3]

\* an answer that is not JSON on the first attempt ends the call
C30_WitnessNotJson ==
    /\ pc = "called"
    /\ llm_call.api_key
    /\ llm_call.replies[1] = "not_json"
    /\ llm_call.replies[2] = "json"
    /\ llm_call.outcome = [content |-> "none", error |-> "LLMServiceError", attempts |-> 1]

\* three retryable errors: the third attempt's error raises LLMServiceError
C30_WitnessExhausted ==
    /\ pc = "called"
    /\ llm_call.api_key
    /\ \A k \in 1..3 : llm_call.replies[k] \in C_Retryable
    /\ llm_call.outcome = [content |-> "none", error |-> "LLMServiceError", attempts |-> 3]

====
